---- MODULE Spec2Model ----
(***************************************************************************)
(* A model of the nix-uri flake reference parser and renderer.             *)
(*                                                                         *)
(* Strings are sequences of one-character strings.  A few characters that  *)
(* cannot be written in a TLA+ string are named: "DEL" is the control      *)
(* character U+007F and "E9" the non-ASCII letter U+00E9.                  *)
(* Option<T> is a sequence of length 0 (None) or 1 (Some).                 *)
(* A nom/winnow parser result is [ok |-> TRUE, rest, out] or               *)
(* [ok |-> FALSE, fatal]; fatal distinguishes Err::Failure from Err::Error.*)
(* A NixUriResult is [ok |-> TRUE, val] or [ok |-> FALSE, err, arg].       *)
(***************************************************************************)
EXTENDS Integers, Sequences, FiniteSets, TLC

(***************************************************************************)
(* Characters and their classes (std::char)                                *)
(***************************************************************************)
Lower ==
    {"a","b","c","d","e","f","g","h","i","j","k","l","m",
     "n","o","p","q","r","s","t","u","v","w","x","y","z"}
Upper == {"A","G","R","T","Z"}
Digit == {"0","1","2","3","4","5","6","7","8","9"}
is_ascii_alphabetic(c) == c \in Lower \cup Upper
is_whitespace(c) == c \in {" ", "\t"}
is_control(c) == c \in {"\t", "DEL"}
is_ascii_char(c) == c # "E9"

(***************************************************************************)
(* String helpers (std::str)                                               *)
(***************************************************************************)
Some(x) == <<x>>
NoneOpt == <<>>
Take(s, n) == SubSeq(s, 1, n)
Drop(s, n) == SubSeq(s, n + 1, Len(s))
MinOf(S) == CHOOSE i \in S : \A j \in S : i <= j
MaxOf(S) == CHOOSE i \in S : \A j \in S : i >= j
starts_with(s, p) == Len(s) >= Len(p) /\ Take(s, Len(p)) = p
ends_with(s, p) == Len(s) >= Len(p) /\ Drop(s, Len(s) - Len(p)) = p
\* index of the first occurrence of sub in s, 0 when there is none (str::find)
find(s, sub) ==
    LET I == {i \in 1..(Len(s) - Len(sub) + 1) : SubSeq(s, i, i + Len(sub) - 1) = sub}
    IN  IF I = {} THEN 0 ELSE MinOf(I)
contains(s, sub) == find(s, sub) # 0
\* index of the first character satisfying a class, 0 when there is none
find_char_in(s, C) ==
    LET I == {i \in 1..Len(s) : s[i] \in C}
    IN  IF I = {} THEN 0 ELSE MinOf(I)
matches_count(s, c) == Cardinality({i \in 1..Len(s) : s[i] = c})
is_ascii(s) == \A i \in 1..Len(s) : is_ascii_char(s[i])
trim(s) ==
    LET I == {i \in 1..Len(s) : ~is_whitespace(s[i])}
    IN  IF I = {} THEN <<>> ELSE SubSeq(s, MinOf(I), MaxOf(I))

(***************************************************************************)
(* Literals of the grammar                                                 *)
(***************************************************************************)
\* With({e(x) : x \in {v}}) is e with x bound to the value v, computed once
With(S) == CHOOSE v \in S : TRUE
W_github == <<"g","i","t","h","u","b">>
W_gitlab == <<"g","i","t","l","a","b">>
W_sourcehut == <<"s","o","u","r","c","e","h","u","t">>
W_git == <<"g","i","t">>
W_hg == <<"h","g">>
W_file == <<"f","i","l","e">>
W_tarball == <<"t","a","r","b","a","l","l">>
W_mercurial == <<"m","e","r","c","u","r","i","a","l">>
W_path == <<"p","a","t","h">>
W_flake == <<"f","l","a","k","e">>
W_http == <<"h","t","t","p">>
W_https == <<"h","t","t","p","s">>
W_ssh == <<"s","s","h">>
W_dir == <<"d","i","r">>
W_ref_or_rev == <<"r","e","f","_","o","r","_","r","e","v">>
W_forge_and_indirect ==
    <<"g","i","t","-","f","o","r","g","e"," ","t","y","p","e","s"," ","&","&"," ",
      "i","n","d","i","r","e","c","t"," ","t","y","p","e","s">>
W_nar_hash == <<"n","a","r","_","h","a","s","h">>
W_host == <<"h","o","s","t">>
W_rev == <<"r","e","v">>
W_ref == <<"r","e","f">>
W_branch == <<"b","r","a","n","c","h">>
W_submodules == <<"s","u","b","m","o","d","u","l","e","s">>
W_shallow == <<"s","h","a","l","l","o","w">>
QMARK == <<"?">>
EQ == <<"=">>
AMP == <<"&">>
HASH == <<"#">>
COLON == <<":">>
SLASH == <<"/">>
PLUS == <<"+">>
SLASH2 == <<"/","/">>
SEP == <<":","/","/">>
W_path_colon == W_path \o COLON
W_path_sep == W_path \o SEP
W_flake_colon == W_flake \o COLON

(***************************************************************************)
(* nom / winnow primitives                                                 *)
(***************************************************************************)
POk(rest, out) == [ok |-> TRUE, rest |-> rest, out |-> out]
PErr == [ok |-> FALSE, fatal |-> FALSE]
PFailure == [ok |-> FALSE, fatal |-> TRUE]
tag(t, input) ==
    IF starts_with(input, t) THEN POk(Drop(input, Len(t)), t) ELSE PErr
take_until(sub, input) ==
    LET i == find(input, sub)
    IN  IF i = 0 THEN PErr ELSE POk(Drop(input, i - 1), Take(input, i - 1))
take_till(C, input) ==
    LET i == find_char_in(input, C)
    IN  IF i = 0 THEN POk(<<>>, input) ELSE POk(Drop(input, i - 1), Take(input, i - 1))
take_till1(C, input) ==
    LET r == take_till(C, input)
    IN  IF r.out = <<>> THEN PErr ELSE r
\* the longest prefix of characters satisfying the class; at least one
take_while1(C, input) ==
    LET I == {i \in 1..Len(input) : input[i] \notin C}
        n == IF I = {} THEN Len(input) ELSE MinOf(I) - 1
    IN  IF n = 0 THEN PErr ELSE POk(Drop(input, n), Take(input, n))
\* cut: an Err::Error of the inner parser becomes an Err::Failure
cut(r) == IF r.ok THEN r ELSE PFailure

(***************************************************************************)
(* LocationParameters (flakeref/location_params.rs)                        *)
(***************************************************************************)
LocationParameters_default ==
    [dir |-> NoneOpt, nar_hash |-> NoneOpt, rev |-> NoneOpt, ref |-> NoneOpt,
     branch |-> NoneOpt, submodules |-> NoneOpt, shallow |-> NoneOpt,
     host |-> NoneOpt, rev_count |-> NoneOpt, last_modified |-> NoneOpt,
     arbitrary |-> <<>>]

\* impl FromStr for LocationParamKeys: the key, with or without a leading '&'
KnownKeys ==
    {W_dir, W_nar_hash, W_host, W_rev, W_ref, W_branch, W_submodules, W_shallow}
\* the result is the known key (Dir as "dir", ...) or Arbitrary(s) as <<>>
LocationParamKeys_from_str(s) ==
    IF s \in KnownKeys THEN s
    ELSE IF s # <<>> /\ Head(s) = "&" /\ Tail(s) \in KnownKeys THEN Tail(s)
    ELSE <<>>

\* one iteration of `for (param, value) in param_values`
set_param(params, param, value) ==
    LET key == LocationParamKeys_from_str(param)
    IN  IF key = W_dir THEN [params EXCEPT !.dir = Some(value)]
        ELSE IF key = W_nar_hash THEN [params EXCEPT !.nar_hash = Some(value)]
        ELSE IF key = W_host THEN [params EXCEPT !.host = Some(value)]
        ELSE IF key = W_ref THEN [params EXCEPT !.ref = Some(value)]
        ELSE IF key = W_rev THEN [params EXCEPT !.rev = Some(value)]
        ELSE IF key = W_branch THEN [params EXCEPT !.branch = Some(value)]
        ELSE IF key = W_submodules THEN [params EXCEPT !.submodules = Some(value)]
        ELSE IF key = W_shallow THEN [params EXCEPT !.shallow = Some(value)]
        ELSE [params EXCEPT !.arbitrary = Append(@, <<param, value>>)]
RECURSIVE set_params(_, _)
set_params(params, param_values) ==
    IF param_values = <<>> THEN params
    ELSE set_params(set_param(params, Head(param_values)[1], Head(param_values)[2]),
                    Tail(param_values))

\* separated_pair(take_until("="), "=", alt((take_until("&"), take_until("#"), rest)))
LocationParameters_pair(input) ==
    With({ IF ~k.ok THEN PErr
           ELSE LET after == Drop(k.rest, 1)
                IN  With({ POk(v.rest, <<k.out, v.out>>) :
                           v \in {IF contains(after, AMP) THEN take_until(AMP, after)
                                  ELSE IF contains(after, HASH) THEN take_until(HASH, after)
                                  ELSE POk(<<>>, after)} })
         : k \in {take_until(EQ, input)} })
\* winnow's repeat(0..11, ..): the range excludes its end, at most 10 pairs
RepeatMax == 10
RECURSIVE LocationParameters_repeat(_, _, _)
LocationParameters_repeat(input, count, acc) ==
    IF count = RepeatMax THEN POk(input, acc)
    ELSE With({ IF ~r.ok THEN POk(input, acc)
                ELSE IF Len(r.rest) = Len(input) THEN PFailure
                ELSE LocationParameters_repeat(r.rest, count + 1, Append(acc, r.out))
              : r \in {LocationParameters_pair(input)} })
LocationParameters_parse(input) ==
    With({ IF ~r.ok THEN r
           ELSE POk(r.rest, set_params(LocationParameters_default, r.out))
         : r \in {LocationParameters_repeat(input, 0, <<>>)} })

(***************************************************************************)
(* parser.rs                                                               *)
(***************************************************************************)
\* separated_pair(take_until("="), n_char('='), alt((take_until("&"), rest)))
parse_params_pair(input) ==
    With({ IF ~k.ok THEN PErr
           ELSE LET after == Drop(k.rest, 1)
                IN  With({ POk(v.rest, <<k.out, v.out>>) :
                           v \in {IF contains(after, AMP) THEN take_until(AMP, after)
                                  ELSE POk(<<>>, after)} })
         : k \in {take_until(EQ, input)} })
ManyMax == 11
RECURSIVE parse_params_many(_, _, _)
parse_params_many(input, count, acc) ==
    IF count = ManyMax THEN POk(input, acc)
    ELSE With({ IF ~r.ok THEN POk(input, acc)
                ELSE IF Len(r.rest) = Len(input) THEN PErr
                ELSE parse_params_many(r.rest, count + 1, Append(acc, r.out))
              : r \in {parse_params_pair(input)} })
\* out is Option<LocationParameters>, rest the text before the first '?'
parse_params(input) ==
    With({ IF ~t.ok THEN POk(input, NoneOpt)
           ELSE With({ IF ~m.ok THEN m
                       ELSE POk(t.out, Some(set_params(LocationParameters_default, m.out)))
                     : m \in {parse_params_many(Drop(t.rest, 1), 0, <<>>)} })
         : t \in {take_until(QMARK, input)} })
Ok(val) == [ok |-> TRUE, val |-> val]
Err(err, arg) == [ok |-> FALSE, err |-> err, arg |-> arg]
\* `.finish()?` on a nom error: From<IErr<&str>> for NixUriError
NomParseError == Err("NomParseError", <<>>)

TarballExtensions ==
    {<<".","t","a","r">>, <<".","g","z">>, <<".","b","z","2">>, <<".","x","z">>,
     <<".","z","i","p">>, <<".","t","a","r",".","b","z","2">>,
     <<".","t","a","r",".","z","s","t">>, <<".","t","g","z">>,
     <<".","t","a","r",".","g","z">>, <<".","t","a","r",".","x","z">>}
is_tarball(input) == \E ext \in TarballExtensions : ends_with(input, ext)

\* impl TryFrom<&str> for TransportLayer
TransportLayer_try_from(value) ==
    IF value = <<>> THEN Ok("None")
    ELSE IF value = W_http THEN Ok("Http")
    ELSE IF value = W_https THEN Ok("Https")
    ELSE IF value = W_ssh THEN Ok("Ssh")
    ELSE IF value = W_file THEN Ok("File")
    ELSE Err("UnknownTransportLayer", value)
\* parse_from_transport_type: the text after the first '+'
parse_transport_type(input) ==
    LET t == take_until(PLUS, input)
    IN  IF ~t.ok THEN NomParseError
        ELSE TransportLayer_try_from(Drop(t.rest, 1))
\* preceded(n_char(':'), preceded(n_char('/'), n_char('/')))
parse_sep(input) == tag(SEP, input)

(***************************************************************************)
(* flakeref/forge.rs                                                       *)
(***************************************************************************)
GitForgePlatform_parse(input) ==
    With({ IF ~p.ok THEN PErr
           ELSE IF ~tag(COLON, p.rest).ok THEN PErr
           ELSE POk(Drop(p.rest, 1), p.out)
         : p \in {IF tag(W_github, input).ok THEN POk(Drop(input, 6), "GitHub")
                  ELSE IF tag(W_gitlab, input).ok THEN POk(Drop(input, 6), "GitLab")
                  ELSE IF tag(W_sourcehut, input).ok THEN POk(Drop(input, 9), "SourceHut")
                  ELSE PErr} })
\* the ref read from the '/' that follows the repo, the '/' included
parse_owner_repo_ref_keep_slash(input) ==
    With({ With({ IF ~owner.ok \/ ~tag(SLASH, owner.rest).ok THEN PErr
                  ELSE With({ IF ~repo.ok THEN PErr
                              ELSE POk(path0.rest,
                                       <<owner.out, repo.out,
                                         IF repo.rest = <<>> THEN NoneOpt
                                         ELSE Some(repo.rest)>>)
                            : repo \in {take_till1({"/"}, Drop(owner.rest, 1))} })
                : owner \in {take_till1({"/"}, path0.out)} })
         : path0 \in {take_till({"#", "?"}, input)} })
\* the ref of a '/' with nothing after it read as Some("")
parse_owner_repo_ref_empty_ref(input) ==
    With({ With({ IF ~owner.ok \/ ~tag(SLASH, owner.rest).ok THEN PErr
                  ELSE With({ IF ~repo.ok THEN PErr
                              ELSE POk(path0.rest,
                                       <<owner.out, repo.out,
                                         IF tag(SLASH, repo.rest).ok
                                         THEN Some(Drop(repo.rest, 1))
                                         ELSE NoneOpt>>)
                            : repo \in {take_till1({"/"}, Drop(owner.rest, 1))} })
                : owner \in {take_till1({"/"}, path0.out)} })
         : path0 \in {take_till({"#", "?"}, input)} })
\* out is <<owner, repo, Option<ref_or_rev>>>, rest the text from '#' or '?'
parse_owner_repo_ref(input) ==
    With({ With({ IF ~owner.ok \/ ~tag(SLASH, owner.rest).ok THEN PErr
                  ELSE With({ IF ~repo.ok THEN PErr
                              ELSE LET maybe_refrev ==
                                           IF tag(SLASH, repo.rest).ok
                                           THEN Drop(repo.rest, 1) ELSE repo.rest
                                   IN  POk(path0.rest,
                                           <<owner.out, repo.out,
                                             IF maybe_refrev = <<>> THEN NoneOpt
                                             ELSE Some(maybe_refrev)>>)
                            : repo \in {take_till1({"/"}, Drop(owner.rest, 1))} })
                : owner \in {take_till1({"/"}, path0.out)} })
         : path0 \in {take_till({"#", "?"}, input)} })
GitForge(platform, owner, repo, ref_or_rev) ==
    [kind |-> "GitForge", platform |-> platform, owner |-> owner, repo |-> repo,
     ref_or_rev |-> ref_or_rev]
GitForge_parse(input) ==
    With({ IF ~p.ok THEN PErr
           ELSE With({ IF ~f.ok THEN PErr
                       ELSE POk(f.rest, GitForge(p.out, f.out[1], f.out[2], f.out[3]))
                     : f \in {parse_owner_repo_ref(p.rest)} })
         : p \in {GitForgePlatform_parse(input)} })

(***************************************************************************)
(* flakeref/fr_type.rs: FlakeRefType and parse_type                        *)
(***************************************************************************)
Resource(res_type, location, transport_type) ==
    [kind |-> "Resource", res_type |-> res_type, location |-> location,
     transport_type |-> transport_type]
Indirect(id, ref_or_rev) == [kind |-> "Indirect", id |-> id, ref_or_rev |-> ref_or_rev]
PathType(path) == [kind |-> "Path", path |-> path]
NoneType == [kind |-> "None"]
\* ref_or_rev that answers Ok(()) on every variant
ref_or_rev_always_ok(self, ref_or_rev_alt) ==
    IF self.kind \in {"GitForge", "Indirect"}
    THEN [self |-> [self EXCEPT !.ref_or_rev = ref_or_rev_alt], ret |-> Ok(<<>>)]
    ELSE [self |-> self, ret |-> Ok(<<>>)]
\* fn ref_or_rev(&mut self, ref_or_rev_alt): self afterwards and the result
ref_or_rev(self, ref_or_rev_alt) ==
    IF self.kind \in {"GitForge", "Indirect"}
    THEN [self |-> [self EXCEPT !.ref_or_rev = ref_or_rev_alt], ret |-> Ok(<<>>)]
    ELSE [self |-> self,
          ret |-> Err("UnsupportedByType",
                      <<W_ref_or_rev, W_forge_and_indirect>>)]

IdChars == Lower \cup Upper \cup Digit \cup {"-", "_"}
\* the id is non-empty, starts with a letter and has only id characters
valid_flake_id(id) ==
    /\ id # <<>>
    /\ is_ascii_alphabetic(id[1])
    /\ \A i \in 1..Len(id) : id[i] \in IdChars
\* `input.find('/')` and `split_at`: <<id, Option<ref>>>
split_id_ref(input) ==
    LET pos == find(input, SLASH)
    IN  IF pos # 0 THEN <<Take(input, pos - 1), Some(Drop(input, pos))>>
        ELSE <<input, NoneOpt>>

PlatformOf(t) ==
    IF t = W_github THEN "GitHub" ELSE IF t = W_gitlab THEN "GitLab" ELSE "SourceHut"
parse_type_forge(t, input) ==
    With({ IF ~r.ok THEN NomParseError
           ELSE Ok(GitForge(PlatformOf(t), r.out[1], r.out[2], r.out[3]))
         : r \in {parse_owner_repo_ref(input)} })
\* Path::is_absolute on Unix
is_absolute(input) == starts_with(input, SLASH)
parse_type_path(input) ==
    IF ~is_absolute(input) \/ contains(input, <<"]">>) \/ contains(input, <<"[">>)
    THEN Err("NotAbsolute", input)
    ELSE IF contains(input, HASH) \/ contains(input, QMARK)
    THEN Err("PathCharacter", input)
    ELSE Ok(PathType(input))
\* the flake: branch without the validation of the id
parse_type_flake_unchecked(input) ==
    With({ Ok(Indirect(s[1], s[2])) : s \in {split_id_ref(input)} })
parse_type_flake(input) ==
    With({ IF s[1] = <<>> \/ ~is_ascii_alphabetic(s[1][1]) THEN Err("InvalidUrl", input)
           ELSE IF ~(\A i \in 1..Len(s[1]) : s[1][i] \in IdChars) THEN Err("InvalidUrl", input)
           ELSE Ok(Indirect(s[1], s[2]))
         : s \in {split_id_ref(input)} })
\* "<kind>+<transport>:" with the "//" optional (git, tarball, file) or required (hg)
parse_type_transport(res_type, t, input, slashes_required) ==
    With({ IF ~transport_type.ok THEN transport_type
           ELSE IF slashes_required /\ ~sl.ok THEN NomParseError
           ELSE Ok(Resource(res_type, IF sl.ok THEN sl.rest ELSE input,
                            Some(transport_type.val)))
         : transport_type \in {parse_transport_type(t)}, sl \in {tag(SLASH2, input)} })
parse_type_plain_url(t, input) ==
    LET sl == tag(SLASH2, input)
    IN  IF ~sl.ok THEN NomParseError
        ELSE Ok(Resource(IF is_tarball(sl.rest) THEN "Tarball" ELSE "File", sl.rest,
                         Some(IF t = W_https THEN "Https" ELSE "Http")))
parse_type_git(input) ==
    LET sl == tag(SLASH2, input)
    IN  IF ~sl.ok THEN NomParseError
        ELSE Ok(Resource("Git", sl.rest, NoneOpt))
parse_type_other(t, input) ==
    IF starts_with(t, W_git \o PLUS) THEN parse_type_transport("Git", t, input, FALSE)
    ELSE IF starts_with(t, W_hg \o PLUS) THEN parse_type_transport("Mercurial", t, input, TRUE)
    ELSE IF starts_with(t, W_tarball \o PLUS) THEN parse_type_transport("Tarball", t, input, FALSE)
    ELSE IF starts_with(t, W_file \o PLUS) THEN parse_type_transport("File", t, input, FALSE)
    ELSE IF t = W_https \/ t = W_http THEN parse_type_plain_url(t, input)
    ELSE IF t = W_git THEN parse_type_git(input)
    ELSE Err("UnknownUriType", t)
\* the type matched by its prefix "git" before the forge names are tried
parse_type_explicit_git_first(t, input) ==
    IF starts_with(t, W_git) THEN parse_type_other(t, input)
    ELSE IF t \in {W_github, W_gitlab, W_sourcehut} THEN parse_type_forge(t, input)
    ELSE IF t = W_path THEN parse_type_path(input)
    ELSE IF t = W_flake THEN parse_type_flake(input)
    ELSE parse_type_other(t, input)
parse_type_explicit(t, input) ==
    IF t \in {W_github, W_gitlab, W_sourcehut} THEN parse_type_forge(t, input)
    ELSE IF t = W_path THEN parse_type_path(input)
    ELSE IF t = W_flake THEN parse_type_flake(input)
    ELSE parse_type_other(t, input)
looks_like_path(input) ==
    \/ starts_with(input, SLASH)
    \/ starts_with(input, <<".", "/">>)
    \/ starts_with(input, <<".", ".", "/">>)
    \/ input = <<".">>
    \/ input = <<".", ".">>
parse_type_implicit_path(input) ==
    IF contains(input, <<"]">>) \/ contains(input, <<"[">>) \/ ~is_ascii(input)
    THEN Err("InvalidUrl", input)
    ELSE IF contains(input, HASH) \/ contains(input, QMARK)
    THEN Err("PathCharacter", input)
    ELSE Ok(PathType(input))
\* the owner/repo fallback of the implicit branch: the repo is not kept
parse_type_fallback(input) ==
    With({ IF ~r.ok THEN Err("InvalidUrl", input)
           ELSE IF \/ ~(\A i \in 1..Len(r.out[1]) :
                           is_ascii_alphabetic(r.out[1][i]) \/ is_control(r.out[1][i]))
                   \/ r.out[1] = <<>>
           THEN Err("InvalidUrl", r.rest)
           ELSE Ok(Indirect(r.out[1], r.out[3]))
         : r \in {parse_owner_repo_ref(input)} })
parse_type_implicit(input) ==
    IF looks_like_path(input) THEN parse_type_implicit_path(input)
    ELSE With({ IF matches_count(input, "/") <= 1 /\ valid_flake_id(s[1])
                THEN Ok(Indirect(s[1], s[2]))
                ELSE parse_type_fallback(input)
              : s \in {split_id_ref(input)} })
parse_type(input) ==
    LET c == find(input, COLON)
    IN  IF c # 0 THEN parse_type_explicit(Take(input, c - 1), Drop(input, c))
        ELSE parse_type_implicit(input)

FlakeRef(type, params) == [type |-> type, flake |-> NoneOpt, params |-> params]
\* the pre-flight checks without the test of the last character
sanity_checks_no_trailing(input) ==
    \/ trim(input) = <<>>
    \/ trim(input) = SLASH
    \/ trim(input) = COLON
    \/ trim(input) = QMARK
    \/ ~is_ascii(input)
    \/ \E i \in 1..Len(input) : is_control(input[i])
    \/ (input # <<>> /\ is_whitespace(input[1]))
\* the pre-flight checks of parse_nix_uri
sanity_checks_fail(input) ==
    \/ trim(input) = <<>>
    \/ trim(input) = SLASH
    \/ trim(input) = COLON
    \/ trim(input) = QMARK
    \/ ~is_ascii(input)
    \/ \E i \in 1..Len(input) : is_control(input[i])
    \/ (input # <<>> /\ is_whitespace(input[Len(input)]))
    \/ (input # <<>> /\ is_whitespace(input[1]))
parse_nix_uri(input) ==
    IF sanity_checks_fail(input) THEN Err("InvalidUrl", input)
    ELSE With({ IF ~p.ok THEN NomParseError
                ELSE With({ IF ~t.ok THEN t
                            ELSE Ok(FlakeRef(t.val,
                                             IF p.out = NoneOpt
                                             THEN LocationParameters_default
                                             ELSE p.out[1]))
                          : t \in {parse_type(p.rest)} })
              : p \in {parse_params(input)} })
\* impl FromStr for FlakeRef
FlakeRef_from_str(s) == parse_nix_uri(s)

(***************************************************************************)
(* flakeref/transport_layer.rs and flakeref/resource_url.rs                *)
(***************************************************************************)
\* alt((https, http, ssh, file)): the longer of http/https is tried first
TransportLayer_parse(input) ==
    IF tag(W_https, input).ok THEN POk(Drop(input, 5), "Https")
    ELSE IF tag(W_http, input).ok THEN POk(Drop(input, 4), "Http")
    ELSE IF tag(W_ssh, input).ok THEN POk(Drop(input, 3), "Ssh")
    ELSE IF tag(W_file, input).ok THEN POk(Drop(input, 4), "File")
    ELSE PErr
\* preceded(char('+'), cut(Self::parse))
plus_parse(input) ==
    IF ~tag(PLUS, input).ok THEN PErr
    ELSE cut(TransportLayer_parse(Drop(input, 1)))
ResourceType_parse(input) ==
    IF tag(W_git, input).ok THEN POk(Drop(input, 3), "Git")
    ELSE IF tag(W_hg, input).ok THEN POk(Drop(input, 2), "Mercurial")
    ELSE IF tag(W_file, input).ok THEN POk(Drop(input, 4), "File")
    ELSE IF tag(W_tarball, input).ok THEN POk(Drop(input, 7), "Tarball")
    ELSE PErr
ResourceUrl_parse(input) ==
    With({ IF ~res_type.ok THEN PErr
           ELSE With({ IF ~tp.ok /\ tp.fatal THEN PFailure
                       ELSE With({ IF ~sep.ok THEN PErr
                                   ELSE With({ POk(location.rest,
                                                   Resource(res_type.out, location.out,
                                                            IF tp.ok THEN Some(tp.out)
                                                            ELSE NoneOpt))
                                             : location \in {take_till({"#", "?"}, sep.rest)} })
                                 : sep \in {parse_sep(IF tp.ok THEN tp.rest
                                                      ELSE res_type.rest)} })
                     : tp \in {plus_parse(res_type.rest)} })
         : res_type \in {ResourceType_parse(input)} })

(***************************************************************************)
(* flakeref/fr_type.rs: the incremental FlakeRefType::parse                *)
(***************************************************************************)
\* verify(take_till(|c| c == '#' || c == '?'), no '[' and no ']')
path_verifier(input) ==
    With({ IF contains(r.out, <<"[">>) \/ contains(r.out, <<"]">>) THEN PErr ELSE r
         : r \in {take_till({"#", "?"}, input)} })
\* preceded(peek(alt((char('.'), char('/')))), Self::path_verifier)
path_parser(input) ==
    IF input = <<>> \/ input[1] \notin {".", "/"} THEN PErr ELSE path_verifier(input)
parse_path(input) ==
    With({ IF ~r.ok THEN PErr ELSE POk(r.rest, PathType(r.out))
         : r \in {path_parser(IF tag(W_path_sep, input).ok
                              THEN Drop(input, Len(W_path_sep))
                              ELSE IF tag(W_path_colon, input).ok
                              THEN Drop(input, Len(W_path_colon))
                              ELSE input)} })
parse_git_forge(input) == GitForge_parse(input)
parse_file_with_http_transport(input) ==
    With({ IF ~scheme.ok THEN PErr
           ELSE IF ~tag(SEP, scheme.rest).ok THEN PErr
           ELSE With({ POk(location.rest,
                           Resource("File", location.out,
                                    Some(IF scheme.out = W_file \o PLUS \o W_https
                                         THEN "Https" ELSE "Http")))
                     : location \in {take_till({"#", "?"}, Drop(scheme.rest, Len(SEP)))} })
         : scheme \in {IF tag(W_file \o PLUS \o W_https, input).ok
                       THEN tag(W_file \o PLUS \o W_https, input)
                       ELSE tag(W_file \o PLUS \o W_http, input)} })
\* "file" ["+file"] ":" ["//"] followed by a path
parse_explicit_file_scheme(input) ==
    With({ IF ~f.ok THEN PErr
           ELSE With({ IF ~col.ok THEN PErr
                       ELSE path_parser(IF tag(SLASH2, col.rest).ok
                                        THEN Drop(col.rest, 2) ELSE col.rest)
                     : col \in {tag(COLON, IF tag(PLUS \o W_file, f.rest).ok
                                           THEN Drop(f.rest, 5) ELSE f.rest)} })
         : f \in {tag(W_file, input)} })
parse_naked(input) == path_parser(input)
parse_file(input) ==
    With({ IF h.ok THEN h
           ELSE IF e.ok THEN POk(e.rest, Resource("File", e.out, NoneOpt))
           ELSE IF n.ok THEN POk(n.rest, PathType(n.out))
           ELSE PErr
         : h \in {parse_file_with_http_transport(input)},
           e \in {parse_explicit_file_scheme(input)},
           n \in {parse_naked(input)} })
parse_plain_url(input) ==
    With({ IF ~scheme.ok THEN PErr
           ELSE IF ~tag(SEP, scheme.rest).ok THEN PErr
           ELSE With({ POk(location.rest,
                           Resource(IF is_tarball(location.out) THEN "Tarball" ELSE "File",
                                    location.out,
                                    Some(IF scheme.out = W_https THEN "Https" ELSE "Http")))
                     : location \in {take_till({"#", "?"}, Drop(scheme.rest, Len(SEP)))} })
         : scheme \in {IF tag(W_https, input).ok THEN tag(W_https, input)
                       ELSE tag(W_http, input)} })
parse_resource(input) == ResourceUrl_parse(input)
\* the id and the optional "/ref" shared by both branches of parse_indirect
parse_indirect_id_ref(input) ==
    With({ IF ~id.ok THEN PErr
           ELSE IF ~is_ascii_alphabetic(id.out[1]) THEN PErr
           ELSE IF ~tag(SLASH, id.rest).ok THEN POk(id.rest, Indirect(id.out, NoneOpt))
           ELSE With({ POk(ref.rest, Indirect(id.out, Some(ref.out)))
                     : ref \in {take_till({"#", "?"}, Drop(id.rest, 1))} })
         : id \in {take_while1(IdChars, input)} })
parse_indirect(input) ==
    IF tag(W_flake_colon, input).ok
    THEN parse_indirect_id_ref(Drop(input, Len(W_flake_colon)))
    ELSE IF /\ ~contains(input, SEP)
            /\ ~starts_with(input, SLASH)
            /\ ~starts_with(input, <<".">>)
            /\ matches_count(input, "/") <= 1
    THEN parse_indirect_id_ref(input)
    ELSE PErr
\* alt: the first alternative that succeeds, or that fails with Err::Failure
Alt(results) ==
    LET I == {i \in 1..Len(results) : results[i].ok \/ results[i].fatal}
    IN  IF I = {} THEN PErr ELSE results[MinOf(I)]
FlakeRefType_parse(input) ==
    Alt(<<parse_path(input), parse_git_forge(input), parse_file(input),
          parse_plain_url(input), parse_resource(input), parse_indirect(input)>>)

(***************************************************************************)
(* flakeref.rs: FlakeRef::parse and the renderer                           *)
(***************************************************************************)
\* out is the FlakeRef, rest the unconsumed remainder
FlakeRef_parse(input) ==
    With({ IF ~t.ok THEN t
           ELSE IF ~tag(QMARK, t.rest).ok
           THEN POk(t.rest, FlakeRef(t.out, LocationParameters_default))
           ELSE With({ IF p.ok THEN POk(p.rest, FlakeRef(t.out, p.out))
                       ELSE IF p.fatal THEN PFailure
                       ELSE POk(t.rest, FlakeRef(t.out, LocationParameters_default))
                     : p \in {LocationParameters_parse(Drop(t.rest, 1))} })
         : t \in {FlakeRefType_parse(input)} })

\* Display results: [ok |-> TRUE, s] or, when the code panics, [ok |-> FALSE]
Shown(s) == [ok |-> TRUE, s |-> s]
Panic == [ok |-> FALSE]
\* one `if let Some(..)` block of Display for LocationParameters
push_param(res, key, field) ==
    IF field = NoneOpt THEN res
    ELSE (IF res # <<>> THEN res \o QMARK ELSE res) \o key \o EQ \o field[1]
fmt_LocationParameters(p) ==
    LET r1 == IF p.dir = NoneOpt THEN <<>> ELSE W_dir \o EQ \o p.dir[1]
        r2 == push_param(r1, W_branch, p.branch)
        r3 == push_param(r2, W_host, p.host)
        r4 == push_param(r3, W_ref, p.ref)
    IN  push_param(r4, W_rev, p.rev)
fmt_GitForgePlatform(platform) ==
    IF platform = "GitHub" THEN W_github
    ELSE IF platform = "GitLab" THEN W_gitlab
    ELSE W_sourcehut
fmt_ResourceType(res_type) ==
    IF res_type = "Git" THEN W_git
    ELSE IF res_type = "Mercurial" THEN W_mercurial
    ELSE IF res_type = "File" THEN W_file
    ELSE W_tarball
W_no_url_type ==
    <<"N","o"," ","U","r","l"," ","T","y","p","e"," ",
      "S","p","e","c","i","f","i","e","d">>
fmt_TransportLayer(t) ==
    IF t = "None" THEN W_no_url_type
    ELSE IF t = "Http" THEN W_http
    ELSE IF t = "Https" THEN W_https
    ELSE IF t = "Ssh" THEN W_ssh
    ELSE W_file
fmt_Resource(t) ==
    Shown(fmt_ResourceType(t.res_type)
          \o (IF t.transport_type = NoneOpt THEN <<>>
              ELSE PLUS \o fmt_TransportLayer(t.transport_type[1]))
          \o SEP \o t.location)
fmt_GitForge(t) ==
    Shown(fmt_GitForgePlatform(t.platform) \o COLON \o t.owner \o SLASH \o t.repo
          \o (IF t.ref_or_rev = NoneOpt THEN <<>> ELSE SLASH \o t.ref_or_rev[1]))
fmt_Indirect(t) ==
    Shown(IF t.ref_or_rev = NoneOpt THEN t.id ELSE t.id \o SLASH \o t.ref_or_rev[1])
\* a variant left unimplemented
fmt_Path_todo(t) == Panic
fmt_Path(t) == Shown(t.path)
\* Self::None => todo!()
fmt_None(t) == Panic
fmt_FlakeRefType(t) ==
    IF t.kind = "Resource" THEN fmt_Resource(t)
    ELSE IF t.kind = "GitForge" THEN fmt_GitForge(t)
    ELSE IF t.kind = "Indirect" THEN fmt_Indirect(t)
    ELSE IF t.kind = "Path" THEN fmt_Path(t)
    ELSE fmt_None(t)
\* impl Display for FlakeRef
to_string(r) ==
    With({ IF ~type.ok THEN Panic
           ELSE IF params = <<>> THEN type
           ELSE Shown(type.s \o QMARK \o params)
         : params \in {fmt_LocationParameters(r.params)},
           type \in {fmt_FlakeRefType(r.type)} })

(***************************************************************************)
(* urls.rs: UrlWrapper.  Url::parse is the url crate (WHATWG URL); it is   *)
(* modelled for the inputs of url_modelled, on which it neither rewrites   *)
(* characters nor reads a host as a number.                                *)
(***************************************************************************)
RECURSIVE split(_, _)
\* str::split on one character
split(s, c) ==
    LET i == find(s, <<c>>)
    IN  IF i = 0 THEN <<s>> ELSE <<Take(s, i - 1)>> \o split(Drop(s, i), c)
RECURSIVE join(_, _)
join(ss, sep) ==
    IF ss = <<>> THEN <<>>
    ELSE IF Len(ss) = 1 THEN ss[1]
    ELSE ss[1] \o sep \o join(Tail(ss), sep)
RECURSIVE skip_slashes(_)
skip_slashes(s) == IF s # <<>> /\ s[1] = "/" THEN skip_slashes(Tail(s)) ELSE s
RECURSIVE remove_dot_segments(_, _)
\* "." is dropped and ".." pops; either one in last place leaves an empty segment
remove_dot_segments(segs, acc) ==
    IF segs = <<>> THEN acc
    ELSE LET s == Head(segs)
             last == Len(segs) = 1
         IN  IF s = <<".">>
             THEN remove_dot_segments(Tail(segs), IF last THEN Append(acc, <<>>) ELSE acc)
             ELSE IF s = <<".", ".">>
             THEN remove_dot_segments(Tail(segs),
                      LET popped == IF acc = <<>> THEN acc ELSE Take(acc, Len(acc) - 1)
                      IN  IF last THEN Append(popped, <<>>) ELSE popped)
             ELSE remove_dot_segments(Tail(segs), Append(acc, s))
SpecialSchemes ==
    {W_http, W_https, <<"f","t","p">>, <<"w","s">>, <<"w","s","s">>}
SchemeChars == Lower \cup Digit \cup {"+", "-", "."}
UrlChars == Lower \cup Digit \cup {":", "/", ".", "?", "#", "=", "&", "+", "-", "_"}
all_digits(s) == \A i \in 1..Len(s) : s[i] \in Digit
\* out: [host: Option, path_segments: Option<seq>, query: Option]
Url_parse(input) ==
    LET c == find(input, COLON)
        scheme == Take(input, c - 1)
        rem == Drop(input, c)
    IN  IF c = 0 \/ scheme = <<>> \/ scheme[1] \notin Lower
           \/ (\E i \in 1..Len(scheme) : scheme[i] \notin SchemeChars)
        THEN Err("ServoUrl", <<>>)
        ELSE With({ With({ With({ IF special /\ host = <<>> THEN Err("ServoUrl", <<>>)
                                  ELSE IF ~all_digits(port) THEN Err("ServoUrl", <<>>)
                                  ELSE Ok([host |-> IF host = <<>> THEN NoneOpt ELSE Some(host),
                                           path_segments |->
                                               IF starts_with(path, SLASH)
                                               THEN Some(split(Tail(path), "/"))
                                               ELSE NoneOpt,
                                           query |->
                                               IF starts_with(p.rest, QMARK)
                                               THEN Some(take_till({"#"}, Drop(p.rest, 1)).out)
                                               ELSE NoneOpt])
                                : host \in {IF pc = 0 THEN auth.out ELSE Take(auth.out, pc - 1)},
                                  port \in {IF pc = 0 THEN <<>> ELSE Drop(auth.out, pc)},
                                  path \in {IF ~(has_authority \/ starts_with(rem, SLASH))
                                            THEN p.out
                                            ELSE IF p.out = <<>>
                                            THEN (IF special THEN SLASH ELSE <<>>)
                                            ELSE SLASH \o join(remove_dot_segments(
                                                     split(Tail(p.out), "/"), <<>>), SLASH)} })
                         : pc \in {find(auth.out, COLON)},
                           p \in {take_till({"?", "#"}, auth.rest)} })
                  : special \in {(scheme \in SpecialSchemes)},
                    has_authority \in {(scheme \in SpecialSchemes) \/ starts_with(rem, SLASH2)},
                    auth \in {IF (scheme \in SpecialSchemes)
                              THEN take_till({"/", "?", "#"}, skip_slashes(rem))
                              ELSE IF starts_with(rem, SLASH2)
                              THEN take_till({"/", "?", "#"}, Drop(rem, 2))
                              ELSE POk(rem, <<>>)} })
\* the inputs on which Url_parse is the url crate: plain characters, no
\* file: host, no host whose last label is a number
url_modelled(input) ==
    LET c == find(input, COLON)
        rem == skip_slashes(Drop(input, c))
        auth == take_till({"/", "?", "#", ":"}, rem).out
        labels == split(auth, ".")
    IN  /\ \A i \in 1..Len(input) : input[i] \in UrlChars
        /\ ~starts_with(input, W_file \o COLON)
        /\ (c # 0 => ~(labels[Len(labels)] # <<>> /\ all_digits(labels[Len(labels)])))
W_github_com == W_github \o <<".","c","o","m">>
type_from_host(url, input) ==
    IF input = W_github_com
    THEN IF url.path_segments = NoneOpt THEN Err("Error", input)
         ELSE LET segments == url.path_segments[1]
              IN  IF Len(segments) < 2 THEN Err("Error", input)
                  ELSE Ok(GitForge("GitHub", segments[1], segments[2],
                                   IF Len(segments) > 2
                                   THEN Some(join(Drop(segments, 2), SLASH))
                                   ELSE NoneOpt))
    ELSE Ok(NoneType)
convert_or_parse(input) ==
    With({ IF is_tarball(input) \/ ~url.ok \/ url.val.host = NoneOpt
           THEN FlakeRef_from_str(input)
           ELSE With({ IF ~flake_ref_type.ok THEN flake_ref_type
                       ELSE IF url.val.query = NoneOpt
                       THEN Ok(FlakeRef(flake_ref_type.val, LocationParameters_default))
                       ELSE With({ IF ~params.ok THEN NomParseError
                                   ELSE Ok(FlakeRef(flake_ref_type.val, params.out))
                                 : params \in {LocationParameters_parse(url.val.query[1])} })
                     : flake_ref_type \in {type_from_host(url.val, url.val.host[1])} })
         : url \in {Url_parse(input)} })

(***************************************************************************)
(* The inputs                                                              *)
(***************************************************************************)
MaxLen == 3
\* the arguments of ref_or_rev
RefValues == {NoneOpt, Some(<<"r">>)}
MaxSegs == 3
MaxPairs == 2
LongPairs == 12
\* every string over GenChars of length at most n
RECURSIVE Strings(_, _)
Strings(C, n) ==
    IF n = 0 THEN {<<>>}
    ELSE LET S == Strings(C, n - 1)
         IN  S \cup {Append(s, c) : s \in {t \in S : Len(t) = n - 1}, c \in C}
GenChars == {"a", "1", "/", ":", "?", "#", " ", "."}
GenericInputs == Strings(GenChars, MaxLen)

SegPool == {<<>>, <<"a">>, <<"1","b">>}
\* 1..n segments joined by '/'
RECURSIVE Bodies(_)
Bodies(n) ==
    IF n = 1 THEN SegPool
    ELSE Bodies(n - 1)
         \cup {b \o SLASH \o s : b \in {x \in Bodies(n - 1) : matches_count(x, "/") = n - 2},
                                 s \in SegPool}
Kinds == {W_git, W_hg, W_file, W_tarball}
Transports == {W_http, W_https, W_ssh, W_file}
Heads ==
    {<<>>, W_github \o COLON, W_gitlab \o COLON, W_sourcehut \o COLON,
     W_flake_colon, W_path_colon, W_path_sep, SLASH, <<".", "/">>,
     W_http \o SEP, W_https \o SEP, W_git \o COLON,
     W_git \o PLUS \o SEP, W_git \o PLUS \o <<"x">> \o SEP,
     W_git \o PLUS \o W_https \o COLON, W_hg \o PLUS \o W_https \o COLON,
     W_mercurial \o SEP, W_mercurial \o PLUS \o W_https \o SEP}
    \cup {k \o SEP : k \in Kinds}
    \cup {k \o PLUS \o t \o SEP : k \in Kinds, t \in Transports}
FewTails == {<<>>, QMARK \o W_dir \o EQ \o <<"a">>, HASH \o <<"f">>}
TypeInputs == {h \o b \o t : h \in Heads, b \in Bodies(MaxSegs), t \in FewTails}

PairPool ==
    {W_dir \o EQ \o <<"x">>, W_dir \o EQ, W_rev \o EQ \o <<"y">>,
     W_nar_hash \o EQ \o <<"h">>, W_host \o EQ \o <<"a", "#", "b">>,
     <<"f", "o", "o", "=", "1">>, <<"b", "a", "r", "=", "2">>, <<"z">>}
\* 0..n pairs joined by '&'
RECURSIVE Queries(_)
Queries(n) ==
    IF n = 0 THEN {<<>>}
    ELSE Queries(n - 1)
         \cup {(IF q = <<>> THEN q ELSE q \o AMP) \o p :
                   q \in {x \in Queries(n - 1) : x = <<>> \/ matches_count(x, "&") = n - 2},
                   p \in PairPool}
QueryHeads ==
    {W_github \o COLON \o <<"a", "/", "b">>, W_git \o PLUS \o W_https \o SEP \o <<"a">>,
     <<"/", "a">>, <<"a">>, W_https \o SEP \o W_github_com \o <<"/", "a", "/", "b">>}
FragTails == {<<>>, HASH \o <<"f">>, HASH \o <<"g", "=", "1">>}
QueryInputs ==
    {h \o QMARK \o q \o f : h \in QueryHeads, q \in Queries(MaxPairs), f \in FragTails}

\* n pairs k=v joined by '&', with the keys of ks taken in turn
RECURSIVE RepeatPairs(_, _)
RepeatPairs(ks, n) ==
    IF n = 0 THEN <<>>
    ELSE (IF n = 1 THEN <<>> ELSE RepeatPairs(ks, n - 1) \o AMP)
         \o ks[((n - 1) % Len(ks)) + 1] \o EQ \o <<CHOOSE d \in Digit : d = ToString(n % 10)>>
LongKeySets ==
    {<<W_dir>>, <<<<"k">>>>, <<<<"k">>, W_dir, <<"j">>>>,
     <<W_dir, <<"a">>, <<"b">>, <<"c">>, <<"d">>, <<"e">>, <<"f">>, <<"g">>, <<"h">>,
       <<"i">>, <<"j">>, <<"k">>, <<"l">>, W_rev>>}
LongInputs ==
    {W_github \o COLON \o <<"a", "/", "b">> \o QMARK \o RepeatPairs(ks, n) :
        ks \in LongKeySets, n \in 1..LongPairs}

Base == W_github \o COLON \o <<"a", "/", "b">>
OddInputs ==
    {<<" ">> \o Base, Base \o <<" ">>, Base \o <<"\t">>, <<"\t">> \o Base,
     W_github \o COLON \o <<"a", "DEL", "/", "b">>, W_github \o COLON \o <<"E9", "/", "b">>,
     W_github \o COLON \o <<"a", " ", "c", "/", "b">>,
     <<" ", " ", " ", "/", " ", " ">>, <<" ", " ", ":", " ", " ", " ">>,
     <<" ", "\t", "?", " ">>, <<"\t">>, <<"DEL">>, <<"E9">>, <<"a", "E9">>,
     <<"/", "a", "DEL">>, <<"/", "a", "[">>, W_path_colon \o <<"/", "a", "]">>,
     <<"a", "-", "b", "_", "c">>, <<"a", "/", "b", " ">>,
     <<"a", "#", "/", "/">>, <<"a", "#", ":", "/", "/">>,
     Base \o <<"/", "a", "/", "1", "b">>}

UrlHeads == {W_https \o SEP, W_http \o SEP, W_git \o PLUS \o W_https \o SEP}
UrlHosts == {W_github_com, <<"a", ".", "c", "o", "m">>}
UrlInputs ==
    {h \o host \o p \o t :
        h \in UrlHeads, host \in UrlHosts,
        p \in {<<>>} \cup {SLASH \o b : b \in Bodies(MaxSegs)}, t \in FewTails}

\* plain URLs whose location ends in an extension, as in the tests
\* plain_https_tarball_autodetect .. http_https_autodetection_edge_cases
TarballInputs ==
    {h \o SEP \o <<"a">> \o ext \o t :
        h \in {W_http, W_https},
        ext \in TarballExtensions
                 \cup {<<>>, <<".","T","A","R",".","G","Z">>, <<".","t","x","t">>,
                       <<".","t","a","r",".","a">>},
        t \in FewTails}

\* github.com URLs whose path, query or fragment ends in an extension
ForgeUrlInputs ==
    {W_https \o SEP \o W_github_com \o <<"/","a","/","b">> \o p \o t :
        p \in {<<>>, <<".","g","z">>, <<".","z","i","p">>, <<"/","c",".","x","z">>},
        t \in FewTails \cup {QMARK \o W_dir \o EQ \o <<"a",".","z","i","p">>,
                             HASH \o <<"f",".","z","i","p">>}}
\* paths with brackets, as in the test path_with_invalid_characters
PathInputs ==
    {h \o p \o t :
        h \in {<<>>, W_path_colon},
        p \in {<<"/","a">>, <<"/","a","[">>, <<"/","a","]">>, <<"/","[","a","]","/","b">>,
               <<"a","]">>, <<".","/","a","[">>},
        t \in FewTails}
\* flake ids with every class of character, as in the tests of inc_parse_indirect
IndirectInputs ==
    {h \o id \o r :
        h \in {<<>>, W_flake_colon},
        id \in {<<"a","-","1">>, <<"A","_","b">>, <<"a",".","b">>, <<"-","a">>, <<"1","a">>,
                <<"Z">>},
        r \in {<<>>, <<"/","r">>, <<"/","1",".","0">>, <<"/">>, <<"/","r","/","s">>}}
Inputs ==
    GenericInputs \cup TypeInputs \cup QueryInputs \cup LongInputs \cup OddInputs
    \cup UrlInputs \cup TarballInputs \cup ForgeUrlInputs \cup PathInputs
    \cup IndirectInputs

(***************************************************************************)
(* The state machine: one call of an entry point on an input, then the     *)
(* rendering of its value and the parse of the rendered string             *)
(***************************************************************************)
VARIABLES input, op, result, shown, again, mutated
vars == <<input, op, result, shown, again, mutated>>
Pending == [pending |-> TRUE]

Init ==
    /\ input \in Inputs
    /\ op = "none"
    /\ result = Pending
    /\ shown = Pending
    /\ again = Pending
    /\ mutated = Pending

Call(name, r) ==
    /\ op = "none"
    /\ op' = name
    /\ result' = r
    /\ UNCHANGED <<input, shown, again, mutated>>
\* s.parse::<FlakeRef>()
FromStr == Call("from_str", FlakeRef_from_str(input))
\* FlakeRef::parse(s)
Parse == Call("parse", FlakeRef_parse(input))
\* FlakeRefType::parse_type(s)
ParseType == Call("parse_type", parse_type(input))
\* FlakeRefType::parse(s)
TypeParse == Call("type_parse", FlakeRefType_parse(input))
\* UrlWrapper::convert_or_parse(s)
ConvertOrParse ==
    /\ url_modelled(input)
    /\ Call("convert_or_parse", convert_or_parse(input))
\* the FlakeRef a successful call returned
Value == IF op = "parse" THEN result.out ELSE result.val
\* r.to_string(), of the value as the call returned it
Render ==
    /\ op \in {"from_str", "parse", "convert_or_parse"}
    /\ result.ok
    /\ shown = Pending
    /\ mutated = Pending
    /\ shown' = to_string(Value)
    /\ UNCHANGED <<input, op, result, again, mutated>>
\* the rendered string parsed again
Reparse ==
    /\ shown # Pending
    /\ shown.ok
    /\ again = Pending
    /\ again' = FlakeRef_from_str(shown.s)
    /\ UNCHANGED <<input, op, result, shown, mutated>>
\* the FlakeRefType a successful call returned
ParsedType ==
    IF op = "type_parse" THEN result.out
    ELSE IF op = "parse_type" THEN result.val
    ELSE Value.type
\* t.ref_or_rev(v) on the type as the call returned it: the value
\* afterwards and the result
RefOrRev ==
    /\ op # "none"
    /\ result.ok
    /\ shown = Pending
    /\ mutated = Pending
    /\ \E v \in RefValues :
           mutated' = [arg |-> v, after |-> ref_or_rev(ParsedType, v)]
    /\ UNCHANGED <<input, op, result, shown, again>>

Next ==
    \/ FromStr
    \/ Parse
    \/ ParseType
    \/ TypeParse
    \/ ConvertOrParse
    \/ Render
    \/ Reparse
    \/ RefOrRev
Spec == Init /\ [][Next]_vars

(***************************************************************************)
(* Properties                                                              *)
(***************************************************************************)

\* C1: every string from_str accepts renders to a string that from_str
\* accepts again, with a result equal to the first one (round trip).
C1_RoundTrip ==
    (op = "from_str" /\ again # Pending) => (again.ok /\ again.val = result.val)

\* C2: to_string returns a string, it does not panic, on every FlakeRef that
\* from_str returned.
C2_RenderTotal ==
    (op = "from_str" /\ shown # Pending) => shown.ok
C2_Witness ==
    op = "from_str" /\ shown # Pending /\ shown.ok /\ result.val.type.kind = "Path"

\* C3: no successful result of from_str, FlakeRef::parse or convert_or_parse
\* has the kind None; one of GitForge, Resource, Path, Indirect is active.
C3_KindNeverNone ==
    (op \in {"from_str", "parse", "convert_or_parse"} /\ result.ok)
        => Value.type.kind \in {"GitForge", "Resource", "Path", "Indirect"}

\* the inputs the pre-flight check is to reject
C4_Malformed(s) ==
    \/ \A i \in 1..Len(s) : is_whitespace(s[i])
    \/ trim(s) \in {SLASH, COLON, QMARK}
    \/ \E i \in 1..Len(s) : ~is_ascii_char(s[i]) \/ is_control(s[i])
    \/ is_whitespace(s[1])
    \/ is_whitespace(s[Len(s)])
\* C4: from_str returns InvalidUrl carrying the unmodified input for every
\* input that is empty or blank, trims to "/", ":" or "?", has a non-ASCII or
\* control character, or starts or ends with whitespace.
C4_PreFlight ==
    (op = "from_str" /\ C4_Malformed(input)) => result = Err("InvalidUrl", input)
C4_Witness ==
    /\ op = "from_str"
    /\ input = Base \o <<" ">>
    /\ result = Err("InvalidUrl", input)

\* the forge shorthand p:owner/repo[/ref]: owner and repo non-empty and free
\* of '/', '?', '#'; the ref, when present, non-empty and free of '?', '#'
C5_Shorthand(s, p) ==
    /\ starts_with(s, p \o COLON)
    /\ LET body == Drop(s, Len(p) + 1)
           segs == split(body, "/")
       IN  /\ ~contains(body, QMARK) /\ ~contains(body, HASH)
           /\ Len(segs) >= 2 /\ segs[1] # <<>> /\ segs[2] # <<>>
           /\ (Len(segs) > 2 => join(Drop(segs, 2), SLASH) # <<>>)
C5_Platform(p) ==
    IF p = W_github THEN "GitHub" ELSE IF p = W_gitlab THEN "GitLab" ELSE "SourceHut"
C5_Expected(s, p) ==
    LET segs == split(Drop(s, Len(p) + 1), "/")
    IN  FlakeRef(GitForge(C5_Platform(p), segs[1], segs[2],
                          IF Len(segs) > 2 THEN Some(join(Drop(segs, 2), SLASH))
                          ELSE NoneOpt),
                 LocationParameters_default)
\* ASCII, no control character, no whitespace in first or last place
C5_Clean(s) ==
    /\ \A i \in 1..Len(s) : is_ascii_char(s[i]) /\ ~is_control(s[i])
    /\ ~is_whitespace(s[1]) /\ ~is_whitespace(s[Len(s)])
\* C5 (as stated): from_str and FlakeRef::parse on every forge shorthand
\* p:owner/repo[/ref] return the GitForge of p, owner, repo and ref with
\* default parameters, FlakeRef::parse with an empty remainder.
C5_ForgeShorthand ==
    \A p \in {W_github, W_gitlab, W_sourcehut} :
        C5_Shorthand(input, p) =>
            /\ op = "from_str" => result = Ok(C5_Expected(input, p))
            /\ op = "parse" => result = POk(<<>>, C5_Expected(input, p))
\* C5 (amended): the same, for from_str only on inputs that are ASCII, have
\* no control character and do not end with whitespace; FlakeRef::parse on
\* every shorthand.
C5_ForgeShorthandClean ==
    \A p \in {W_github, W_gitlab, W_sourcehut} :
        C5_Shorthand(input, p) =>
            /\ (op = "from_str" /\ C5_Clean(input)) => result = Ok(C5_Expected(input, p))
            /\ op = "parse" => result = POk(<<>>, C5_Expected(input, p))
C5_Witness ==
    /\ op = "from_str"
    /\ input = Base \o <<"/", "a", "/", "1", "b">>
    /\ result.ok
    /\ result.val.type.ref_or_rev = Some(<<"a", "/", "1", "b">>)

C6_Kind(k) ==
    IF k = W_git THEN "Git" ELSE IF k = W_hg THEN "Mercurial"
    ELSE IF k = W_file THEN "File" ELSE "Tarball"
C6_Transport(t) ==
    IF t = W_http THEN "Http" ELSE IF t = W_https THEN "Https"
    ELSE IF t = W_ssh THEN "Ssh" ELSE "File"
\* s is k[+t]://location with a non-empty location free of '?' and '#';
\* an absent transport is t = <<>>
C6_Form(s, k, t) ==
    LET head == k \o (IF t = <<>> THEN <<>> ELSE PLUS \o t) \o SEP
        location == Drop(s, Len(head))
    IN  /\ starts_with(s, head)
        /\ location # <<>>
        /\ ~contains(location, QMARK) /\ ~contains(location, HASH)
\* C6: from_str on k[+t]://location, for every kind k of git, hg, file,
\* tarball and every transport t of absent, http, https, ssh, file, succeeds
\* with Resource{res_type k, transport_type t, location the text after "://"}.
C6_ResourceForm ==
    \A k \in Kinds, t \in {<<>>} \cup Transports :
        (op = "from_str" /\ C6_Form(input, k, t)) =>
            result = Ok(FlakeRef(
                Resource(C6_Kind(k),
                         Drop(input, Len(k \o (IF t = <<>> THEN <<>> ELSE PLUS \o t) \o SEP)),
                         IF t = <<>> THEN NoneOpt ELSE Some(C6_Transport(t))),
                LocationParameters_default))

C7_GitSep == W_git \o SEP
\* a forge shorthand of github or gitlab with a non-empty owner and repo
C7_Forge(s) == C5_Shorthand(s, W_github) \/ C5_Shorthand(s, W_gitlab)
\* the FlakeRefType a call of parse_type or FlakeRefType::parse returned
C7_Type == IF op = "type_parse" THEN result.out ELSE result.val
\* C7 (as stated): FlakeRefType::parse and parse_type classify every input
\* that begins with "git://" as Resource{Git, no transport, location the
\* text after "://"}, and every github: or gitlab: shorthand as GitForge.
C7_GitOrGithub ==
    op \in {"type_parse", "parse_type"} =>
        /\ starts_with(input, C7_GitSep) =>
               result.ok /\ C7_Type = Resource("Git", Drop(input, Len(C7_GitSep)), NoneOpt)
        /\ C7_Forge(input) => result.ok /\ C7_Type.kind = "GitForge"
\* C7 (amended): the same, the location being, for FlakeRefType::parse, the
\* text after "://" up to the first '?' or '#', and for parse_type all of
\* the text after "://".
C7_GitOrGithubUpToQuery ==
    op \in {"type_parse", "parse_type"} =>
        /\ starts_with(input, C7_GitSep) =>
               /\ result.ok
               /\ C7_Type = Resource("Git",
                                     IF op = "type_parse"
                                     THEN take_till({"#", "?"}, Drop(input, Len(C7_GitSep))).out
                                     ELSE Drop(input, Len(C7_GitSep)),
                                     NoneOpt)
        /\ C7_Forge(input) => result.ok /\ C7_Type.kind = "GitForge"
C7_Witness ==
    /\ op = "type_parse"
    /\ input = C7_GitSep \o <<"a">> \o QMARK \o W_dir \o EQ \o <<"a">>
    /\ result.ok
    /\ result.out = Resource("Git", <<"a">>, NoneOpt)

\* C8: when FlakeRef::parse accepts X, free of '#', with an empty remainder,
\* it accepts X#Y for every Y, with the FlakeRef of X and the remainder #Y.
C8_UnconsumedFragment ==
    (op = "parse" /\ contains(input, HASH)) =>
        LET i == find(input, HASH)
            x == FlakeRef_parse(Take(input, i - 1))
        IN  (x.ok /\ x.rest = <<>>) => result = POk(Drop(input, i - 1), x.out)

\* the pairs of a query tail: s is head?k=v&k=v.. with no '#', one '?', and
\* in every pair one '=' after a non-empty key
C9_Pairs(s) == split(Drop(s, find(s, QMARK)), "&")
C9_Key(pair) == Take(pair, find(pair, EQ) - 1)
C9_Value(pair) == Drop(pair, find(pair, EQ))
C9_WellFormed(s) ==
    /\ matches_count(s, "?") = 1 /\ ~contains(s, HASH)
    /\ \A i \in 1..Len(C9_Pairs(s)) :
           matches_count(C9_Pairs(s)[i], "=") = 1 /\ C9_Key(C9_Pairs(s)[i]) # <<>>
\* the head of s is accepted on its own by the entry point that was called
C9_HeadAccepted(s) ==
    LET head == Take(s, find(s, QMARK) - 1)
    IN  IF op = "from_str" THEN FlakeRef_from_str(head).ok
        ELSE FlakeRef_parse(head).ok /\ FlakeRef_parse(head).rest = <<>>
C9_IsUnknown(pair) == C9_Key(pair) \notin KnownKeys
C9_Unknown(s) == SelectSeq(C9_Pairs(s), C9_IsUnknown)
\* a stored key without the '&' that may precede it
C9_Stored(key) == IF key # <<>> /\ Head(key) = "&" THEN Tail(key) ELSE key
\* C9: a pair whose key is not a known key never makes parsing fail; each
\* such pair adds one entry to the arbitrary list, in the order of the input.
C9_ForwardCompatible ==
    (op \in {"from_str", "parse"} /\ C9_WellFormed(input) /\ C9_HeadAccepted(input)) =>
        /\ result.ok
        /\ Len(Value.params.arbitrary) = Len(C9_Unknown(input))
        /\ \A i \in 1..Len(Value.params.arbitrary) :
               /\ C9_Stored(Value.params.arbitrary[i][1]) = C9_Key(C9_Unknown(input)[i])
               /\ Value.params.arbitrary[i][2] = C9_Value(C9_Unknown(input)[i])

C10_Field(params, key) ==
    IF key = W_dir THEN params.dir
    ELSE IF key = W_nar_hash THEN params.nar_hash
    ELSE IF key = W_host THEN params.host
    ELSE IF key = W_ref THEN params.ref
    ELSE IF key = W_rev THEN params.rev
    ELSE IF key = W_branch THEN params.branch
    ELSE IF key = W_submodules THEN params.submodules
    ELSE params.shallow
\* the positions of the pairs of s whose key is key
C10_Occurrences(s, key) == {i \in 1..Len(C9_Pairs(s)) : C9_Key(C9_Pairs(s)[i]) = key}
\* C10: when a known key occurs more than once in a query tail the parse
\* succeeds, the field of the key holds the value of its last occurrence,
\* and no occurrence of the key makes an arbitrary entry.
C10_LastWriteWins ==
    (op \in {"from_str", "parse"} /\ C9_WellFormed(input) /\ C9_HeadAccepted(input)) =>
        \A key \in KnownKeys :
            Cardinality(C10_Occurrences(input, key)) > 1 =>
                /\ result.ok
                /\ C10_Field(Value.params, key) =
                       Some(C9_Value(C9_Pairs(input)[MaxOf(C10_Occurrences(input, key))]))
                /\ \A i \in 1..Len(Value.params.arbitrary) :
                       C9_Stored(Value.params.arbitrary[i][1]) # key

\* the extensions that make a plain URL a tarball
C11_Extensions ==
    {<<".","t","a","r">>, <<".","t","a","r",".","g","z">>,
     <<".","t","a","r",".","b","z","2">>, <<".","t","a","r",".","x","z">>,
     <<".","t","a","r",".","z","s","t">>, <<".","t","g","z">>, <<".","z","i","p">>}
\* the FlakeRefType of a successful call of from_str, FlakeRefType::parse or
\* parse_type
C11_Type ==
    IF op = "from_str" THEN result.val.type
    ELSE IF op = "type_parse" THEN result.out ELSE result.val
\* C11: a plain http:// or https:// URL is a Resource of kind Tarball when
\* its location ends in .tar, .tar.gz, .tar.bz2, .tar.xz, .tar.zst, .tgz or
\* .zip, and of kind File otherwise (bare .gz, .bz2, .xz and upper case).
C11_TarballDetection ==
    (/\ op \in {"from_str", "type_parse", "parse_type"}
     /\ starts_with(input, W_http \o SEP) \/ starts_with(input, W_https \o SEP)
     /\ result.ok) =>
        /\ C11_Type.kind = "Resource"
        /\ C11_Type.res_type =
               IF \E ext \in C11_Extensions : ends_with(C11_Type.location, ext)
               THEN "Tarball" ELSE "File"

\* key=value for a field that is set, nothing for one that is not
C12_Pair(key, field) == IF field = NoneOpt THEN <<>> ELSE <<key \o EQ \o field[1]>>
\* the pairs of the five rendered fields, in their fixed order
C12_Pairs(p) ==
    C12_Pair(W_dir, p.dir) \o C12_Pair(W_branch, p.branch) \o C12_Pair(W_host, p.host)
    \o C12_Pair(W_ref, p.ref) \o C12_Pair(W_rev, p.rev)
\* C12: to_string writes the kind string, then, when a parameter is
\* rendered, one '?' and the pairs key=value in the order dir, branch, host,
\* ref, rev with '&' between consecutive pairs.
C12_CanonicalRendering ==
    (shown # Pending /\ shown.ok) =>
        shown.s = fmt_FlakeRefType(Value.type).s
                  \o (IF C12_Pairs(Value.params) = <<>> THEN <<>>
                      ELSE QMARK \o join(C12_Pairs(Value.params), AMP))

\* the pairs of every known field that is set
C13_Known(p) ==
    C12_Pair(W_dir, p.dir) \o C12_Pair(W_nar_hash, p.nar_hash) \o C12_Pair(W_rev, p.rev)
    \o C12_Pair(W_ref, p.ref) \o C12_Pair(W_branch, p.branch)
    \o C12_Pair(W_submodules, p.submodules) \o C12_Pair(W_shallow, p.shallow)
    \o C12_Pair(W_host, p.host)
\* the arbitrary pairs as key=value
C13_Arbitrary(p) == [i \in 1..Len(p.arbitrary) |-> p.arbitrary[i][1] \o EQ \o p.arbitrary[i][2]]
\* C13: every known field that is set, nar_hash, submodules and shallow
\* included, and every arbitrary pair appears as key=value in the rendered
\* string, the arbitrary pairs after the known fields and in stored order.
C13_LosslessRendering ==
    (shown # Pending /\ shown.ok) =>
        LET known == C13_Known(Value.params)
            arbitrary == C13_Arbitrary(Value.params)
        IN  /\ \A i \in 1..Len(known) : contains(shown.s, known[i])
            /\ \A i \in 1..Len(arbitrary) : contains(shown.s, arbitrary[i])
            /\ \A i \in 1..Len(known), j \in 1..Len(arbitrary) :
                   find(shown.s, known[i]) <= find(shown.s, arbitrary[j])
            /\ \A i, j \in 1..Len(arbitrary) :
                   i < j => find(shown.s, arbitrary[i]) <= find(shown.s, arbitrary[j])

\* s has the form of a path, of a forge shorthand or of a resource
C14_OtherForm(s) ==
    \/ s = <<>> \/ s[1] \in {"/", "."} \/ starts_with(s, W_path \o COLON)
    \/ \E p \in {W_github, W_gitlab, W_sourcehut} : starts_with(s, p \o COLON)
    \/ contains(s, SEP)
    \/ \E k \in Kinds \cup {W_http, W_https} :
           starts_with(s, k \o COLON) \/ starts_with(s, k \o PLUS)
\* C14: an input that has not the form of a path, forge shorthand or
\* resource and holds more than one '/' is an error for FlakeRefType::parse
\* and for from_str: it is never accepted, in particular not as Indirect.
C14_IndirectSlashLimit ==
    (/\ op \in {"type_parse", "from_str"}
     /\ ~C14_OtherForm(input)
     /\ matches_count(input, "/") > 1) => ~result.ok

\* s is p: and a text, up to '?', '#' or the end, whose owner is empty,
\* whose '/' is missing or whose repo is empty
C15_SubParseFails(s, p) ==
    /\ starts_with(s, p \o COLON)
    /\ LET segs == split(take_till({"#", "?"}, Drop(s, Len(p) + 1)).out, "/")
       IN  Len(segs) < 2 \/ segs[1] = <<>> \/ segs[2] = <<>>
\* C15: when the input begins with github:, gitlab: or sourcehut: and the
\* owner/repo sub-parse fails, FlakeRefType::parse returns an error and no
\* value of another variant.
C15_CommittedChoice ==
    \A p \in {W_github, W_gitlab, W_sourcehut} :
        (op = "type_parse" /\ C15_SubParseFails(input, p)) => ~result.ok

\* the URL of the input, as the URL parser reads it
C16_Url == Url_parse(input).val
\* the path of the URL ends in one of the archive extensions
C16_TarballByExtension ==
    \E ext \in C11_Extensions :
        ends_with(take_till({"?", "#"}, input).out, ext)
C16_GitHubUrl ==
    /\ url_modelled(input) /\ Url_parse(input).ok
    /\ C16_Url.host = Some(W_github_com)
    /\ C16_Url.path_segments # NoneOpt
    /\ Len(C16_Url.path_segments[1]) >= 2
C16_Segments == C16_Url.path_segments[1]
C16_Expected ==
    FlakeRef(GitForge("GitHub", C16_Segments[1], C16_Segments[2],
                      IF Len(C16_Segments) > 2
                      THEN Some(join(Drop(C16_Segments, 2), SLASH))
                      ELSE NoneOpt),
             IF C16_Url.query = NoneOpt THEN LocationParameters_default
             ELSE LocationParameters_parse(C16_Url.query[1]).out)
\* C16: for a URL whose host is github.com, with two path segments or more
\* and no archive extension, convert_or_parse returns the GitHub forge of
\* the first two segments, with the other segments joined by '/' as
\* ref_or_rev (None when there are none), the parameters of the URL query,
\* and nothing of the fragment.
C16_GitHubInference ==
    (op = "convert_or_parse" /\ C16_GitHubUrl /\ ~C16_TarballByExtension) =>
        result = Ok(C16_Expected)

\* the input is a URL with a host, and the host is none of the forge hosts
C17_OtherHost ==
    /\ url_modelled(input) /\ Url_parse(input).ok
    /\ Url_parse(input).val.host # NoneOpt
    /\ Url_parse(input).val.host # Some(W_github_com)
\* C17: for a URL whose host is not a forge host, convert_or_parse returns
\* what FlakeRef::from_str returns for the same string, value or error.
C17_UrlFallback ==
    (op = "convert_or_parse" /\ C17_OtherHost) => result = FlakeRef_from_str(input)

\* the fields of a FlakeRefType other than ref_or_rev
C18_Frame(t) ==
    IF t.kind = "GitForge" THEN <<t.kind, t.platform, t.owner, t.repo>>
    ELSE <<t.kind, t.id>>
\* C18: ref_or_rev(v) on a GitForge or an Indirect sets ref_or_rev to v,
\* keeps the other fields and returns Ok; on a Resource, a Path or None it
\* returns Err(UnsupportedByType) and leaves the value as it was.
C18_VariantGated ==
    mutated # Pending =>
        IF ParsedType.kind \in {"GitForge", "Indirect"}
        THEN /\ mutated.after.ret = Ok(<<>>)
             /\ mutated.after.self.ref_or_rev = mutated.arg
             /\ C18_Frame(mutated.after.self) = C18_Frame(ParsedType)
        ELSE /\ ParsedType.kind \in {"Resource", "Path", "None"}
             /\ ~mutated.after.ret.ok
             /\ mutated.after.ret.err = "UnsupportedByType"
             /\ mutated.after.self = ParsedType
\* a ref_or_rev call that changed the ref_or_rev of a forge
C18_Witness ==
    /\ op = "from_str"
    /\ mutated # Pending
    /\ ParsedType.kind = "GitForge"
    /\ ParsedType.ref_or_rev # mutated.arg
    /\ mutated.after.self.ref_or_rev = mutated.arg

\* the owner and repo segments of the shorthand s of platform p
C19_Segments(s, p) == split(take_till({"#", "?"}, Drop(s, Len(p) + 1)).out, "/")
\* the component that s lacks: the owner, or else the repo, or nothing
C19_Missing(s, p) ==
    IF C19_Segments(s, p)[1] = <<>> THEN <<"o","w","n","e","r">>
    ELSE IF Len(C19_Segments(s, p)) < 2 \/ C19_Segments(s, p)[2] = <<>>
    THEN <<"r","e","p","o">>
    ELSE <<>>
\* C19: from_str on a forge shorthand without owner returns
\* MissingTypeParameter(platform, "owner"), and on one with an owner but
\* without repo MissingTypeParameter(platform, "repo").
C19_MissingComponent ==
    \A p \in {W_github, W_gitlab, W_sourcehut} :
        (/\ op = "from_str"
         /\ starts_with(input, p \o COLON)
         /\ ~sanity_checks_fail(input)
         /\ C19_Missing(input, p) # <<>>) =>
            result = Err("MissingTypeParameter", <<p, C19_Missing(input, p)>>)

\* the path of the input: the text up to the query, without the path: prefix
C20_Path ==
    LET head == take_till({"?"}, input).out
    IN  IF starts_with(head, W_path_colon) THEN Drop(head, Len(W_path_colon)) ELSE head
C20_Absolute == starts_with(C20_Path, SLASH)
C20_Brackets == contains(C20_Path, <<"[">>) \/ contains(C20_Path, <<"]">>)
\* C20: from_str on an absolute path with '[' or ']', bare or after path:,
\* returns an error that is not NotAbsolute; NotAbsolute is returned only
\* for a path after path: that is not absolute.
C20_PathErrorKinds ==
    op = "from_str" =>
        /\ (C20_Absolute /\ C20_Brackets) =>
               ~result.ok /\ result.err \in {"InvalidUrl", "PathCharacter"}
        /\ (~result.ok /\ result.err = "NotAbsolute") =>
               starts_with(input, W_path_colon) /\ ~C20_Absolute

\* the text of the shorthand s of platform p, up to '?', '#' or the end
C21_Body(s, p) == take_till({"#", "?"}, Drop(s, Len(p) + 1)).out
\* s is p:owner/repo/ followed by the end, '?' or '#'
C21_TrailingSlash(s, p) ==
    /\ starts_with(s, p \o COLON)
    /\ LET segs == split(C21_Body(s, p), "/")
       IN  Len(segs) = 3 /\ segs[1] # <<>> /\ segs[2] # <<>> /\ segs[3] = <<>>
C22_BackendsAgree ==
    (/\ op = "parse" /\ result.ok /\ result.rest = <<>>
     /\ FlakeRef_from_str(input).ok) =>
        result.out = FlakeRef_from_str(input).val

\* the parameter values a LocationParameters value stores
C23_Values(p) ==
    {p[f][1] : f \in {g \in {"dir", "nar_hash", "rev", "ref", "branch", "submodules",
                             "shallow", "host"} : p[g] # NoneOpt}}
    \cup {p.arbitrary[i][2] : i \in 1..Len(p.arbitrary)}
\* C23: after a successful from_str, and after a successful
\* LocationParameters::parse (as FlakeRef::parse calls it), no stored
\* parameter value holds a '&' or a '#'.
C23_DelimiterFreeValues ==
    (op \in {"from_str", "parse"} /\ result.ok) =>
        \A v \in C23_Values(Value.params) : ~contains(v, AMP) /\ ~contains(v, HASH)

\* C24: the location of a Resource that from_str or FlakeRef::parse returns
\* holds neither '#' nor '?'.
C24_DelimiterFreeLocation ==
    (op \in {"from_str", "parse"} /\ result.ok /\ Value.type.kind = "Resource") =>
        ~contains(Value.type.location, HASH) /\ ~contains(Value.type.location, QMARK)

\* s matches [A-Za-z][A-Za-z0-9_-]*
C25_IsId(s) ==
    /\ s # <<>>
    /\ s[1] \in Lower \cup Upper
    /\ \A i \in 1..Len(s) : s[i] \in Lower \cup Upper \cup Digit \cup {"-", "_"}
\* s is a ref: not empty, of letters, digits, '-', '_' and '.'
C25_IsRef(s) ==
    /\ s # <<>>
    /\ \A i \in 1..Len(s) : s[i] \in Lower \cup Upper \cup Digit \cup {"-", "_", "."}
\* the input without the flake: it may begin with
C25_Text == IF starts_with(input, W_flake_colon) THEN Drop(input, 6) ELSE input
C25_Id == Take(C25_Text, IF find(C25_Text, SLASH) = 0 THEN Len(C25_Text)
                         ELSE find(C25_Text, SLASH) - 1)
C25_Ref == IF find(C25_Text, SLASH) = 0 THEN NoneOpt
           ELSE Some(Drop(C25_Text, find(C25_Text, SLASH)))
\* C25: an Indirect value of from_str or FlakeRefType::parse has an id of the
\* form [A-Za-z][A-Za-z0-9_-]*; "id", "id/ref", "flake:id" and "flake:id/ref"
\* give through parse_type Indirect{id, ref or None}; "flake:" before an
\* empty, digit-led or otherwise invalid id is an error.
C25_IndirectIds ==
    /\ (op \in {"from_str", "type_parse"} /\ result.ok /\ ParsedType.kind = "Indirect") =>
           C25_IsId(ParsedType.id)
    /\ (/\ op = "parse_type" /\ C25_IsId(C25_Id)
        /\ (C25_Ref # NoneOpt => C25_IsRef(C25_Ref[1]))) =>
           result = Ok(Indirect(C25_Id, C25_Ref))
    /\ (op = "parse_type" /\ starts_with(input, W_flake_colon) /\ ~C25_IsId(C25_Id)) =>
           ~result.ok
\* parse_type has read flake:id/ref with an id of letters, '_' and a ref
C25_Witness ==
    /\ op = "parse_type"
    /\ input = W_flake_colon \o <<"A","_","b","/","1",".","0">>
    /\ result = Ok(Indirect(<<"A","_","b">>, Some(<<"1",".","0">>)))

\* C26: when from_str accepts s and accepts the rendering s1 of its result
\* too, the rendering of that second result is s1 again.
C26_StableRendering ==
    (op = "from_str" /\ again # Pending /\ again.ok) => to_string(again.val) = shown

\* C27: a Resource that from_str returned is rendered with a kind tag that
\* from_str accepts: the rendering is read again as a Resource of the same
\* kind.
C27_KindTagsParseable ==
    (/\ op = "from_str" /\ result.ok /\ result.val.type.kind = "Resource"
     /\ again # Pending) =>
        /\ again.ok
        /\ again.val.type.kind = "Resource"
        /\ again.val.type.res_type = result.val.type.res_type

\* the input ends in a '/' with nothing after it, before the query or the
\* fragment if there is one
C28_EndsInSlash == ends_with(take_till({"?", "#"}, input).out, SLASH)
\* C28: no GitForge or Indirect value that from_str, FlakeRef::parse or
\* convert_or_parse returns has ref_or_rev = Some(""); an input that ends in
\* a '/' with nothing after it gives ref_or_rev = None.
C28_EmptyRefIsAbsent ==
    (/\ op \in {"from_str", "parse", "convert_or_parse"} /\ result.ok
     /\ Value.type.kind \in {"GitForge", "Indirect"}) =>
        /\ Value.type.ref_or_rev # Some(<<>>)
        /\ (C28_EndsInSlash /\ (op = "parse" => result.rest = <<>> \/ result.rest[1] \in {"?", "#"}))
               => Value.type.ref_or_rev = NoneOpt

\* C29: an unknown key is stored in the arbitrary list as the text between
\* the separator and the '=', in every place of the query: no stored key
\* begins with the '&' that preceded it.
C29_NoSeparatorInKeys ==
    (op \in {"from_str", "parse"} /\ result.ok) =>
        \A i \in 1..Len(Value.params.arbitrary) :
            ~starts_with(Value.params.arbitrary[i][1], AMP)

\* the keys of the pairs of s differ from each other
C30_DistinctKeys(s) ==
    \A i, j \in 1..Len(C9_Pairs(s)) :
        i # j => C9_Key(C9_Pairs(s)[i]) # C9_Key(C9_Pairs(s)[j])
\* the pair is in the parameters: in its field, or in the arbitrary list
C30_Reflected(params, pair) ==
    IF C9_Key(pair) \in KnownKeys
    THEN C10_Field(params, C9_Key(pair)) = Some(C9_Value(pair))
    ELSE \E j \in 1..Len(params.arbitrary) :
             /\ C9_Stored(params.arbitrary[j][1]) = C9_Key(pair)
             /\ params.arbitrary[j][2] = C9_Value(pair)
\* C30: when a query tail of n well-formed pairs with distinct keys is
\* parsed with success, each of the n pairs is in the parameters, for every
\* n: no pair is dropped while the parse succeeds.
C30_NothingDropped ==
    (/\ op \in {"from_str", "parse"} /\ result.ok
     /\ (op = "parse" => result.rest = <<>>)
     /\ C9_WellFormed(input) /\ C30_DistinctKeys(input)) =>
        \A i \in 1..Len(C9_Pairs(input)) : C30_Reflected(Value.params, C9_Pairs(input)[i])
====
